---- MODULE Spec2Model ----
(***************************************************************************)
(* fastz.core: impedance trees of lumped elements (R, L, C) connected in   *)
(* series (SeriesZ) and parallel (ParallelZ).                              *)
(*                                                                         *)
(* The state is the Python heap of impedance objects (heap: object id ->   *)
(* object) and a record of the last call made on it (last).  Objects are   *)
(* never freed: every object stays referenced by the caller.  A run builds *)
(* and relabels objects and then makes one query (subz, evaluation or      *)
(* breakfreq) on what it built.                                            *)
(***************************************************************************)
EXTENDS Integers, Sequences, FiniteSets, TLC

VARIABLES heap, last

vars == <<heap, last>>

\* ------------------------------------------------------------------ bounds

\* Number of objects the caller creates.
MaxNodes == 3

\* Longest children list a composite is grown to.
MaxChildren == 4

\* Positional children handed to an explicit SeriesZ(...) / ParallelZ(...).
MaxArgs == 2

\* Longest labels argument of breakfreq tried exhaustively, in characters.
MaxLabelChars == 3

\* Python's recursion limit, scaled to the heap: an acyclic structure of
\* MaxNodes objects is never deeper than MaxNodes calls.
RecursionLimit == MaxNodes + 1

\* ------------------------------------------------------------------ values

\* Python None for LumpedElement._value; a bound value v is <<v>>.
None == <<>>

LeafTypes == {"R", "L", "C"}

CompositeTypes == {"SeriesZ", "ParallelZ"}

\* Subscripts are str or int (Union[str, int]).
NoSub == [str |-> ""]

Subscripts == {NoSub, [int |-> 1]}

\* Bound values given to a leaf at construction (v=None by default).
BoundValues == {None, <<1>>}

Digit(d) ==
    CASE d = 0 -> "0" [] d = 1 -> "1" [] d = 2 -> "2" [] d = 3 -> "3"
      [] d = 4 -> "4" [] d = 5 -> "5" [] d = 6 -> "6" [] d = 7 -> "7"
      [] d = 8 -> "8" [] d = 9 -> "9"

RECURSIVE IntStr(_)
IntStr(n) == IF n < 10 THEN Digit(n) ELSE IntStr(n \div 10) \o Digit(n % 10)

\* Mutant: an integer subscript formats as the empty string.
Str_IntDropped(subs) == IF "int" \in DOMAIN subs THEN "" ELSE subs.str

\* The string form of a subscript, as the f-string formats it.
Str(subs) == IF "int" \in DOMAIN subs THEN IntStr(subs.int) ELSE subs.str

\* ------------------------------------------------------------------ objects

Nodes == 1..Len(heap)

IsComposite(h, n) == h[n].type \in CompositeTypes

IsLeaf(h, n) == h[n].type \in LeafTypes

\* The prefix property of each class.
prefix(h, n) == IF IsComposite(h, n) THEN "Z" ELSE h[n].type

\* Z.label: f"{self.prefix}{self.subscript}"
label(h, n) == prefix(h, n) \o Str(h[n].subscript)

\* The labels a caller asks for: every prefix with every subscript.
Labels == {p \o Str(s) : p \in LeafTypes \cup {"Z"}, s \in Subscripts}

LumpedElement(type, subs, v) ==
    [type |-> type, subscript |-> subs, value |-> v, children |-> <<>>]

CompositeZ(type, children, subs) ==
    [type |-> type, subscript |-> subs, value |-> None, children |-> children]

\* ------------------------------------------------------------------ results

\* A call returns an object (node), a number (val) or nothing, or raises (err).
NoVal == [none |-> TRUE]

Returned(n) == [err |-> "none", node |-> n, val |-> NoVal]

Value(v) == [err |-> "none", node |-> 0, val |-> v]

Raised(e) == [err |-> e, node |-> 0, val |-> NoVal]

NoArg == [none |-> TRUE]

\* The record of a call: the method, its receiver and arguments, its outcome.
Called(op, self, other, subs, arg, ret) ==
    [op |-> op, self |-> self, other |-> other, subs |-> subs,
     arg |-> arg, ret |-> ret]

Queries == {"subz", "call", "breakfreq"}

\* No query has been made yet.
Building == last.op \notin Queries

\* ------------------------------------------------------------------ subz

\* Z.subz as CompositeZ and LumpedElement implement it.  depth counts the
\* Python frames left: a structure that contains itself recurses until the
\* interpreter raises RecursionError, which no handler here catches.
RECURSIVE subz(_, _, _, _), subzChildren(_, _, _, _, _)
subz(h, self, lbl, depth) ==
    IF depth = 0 THEN Raised("RecursionError")
    ELSE IF lbl = label(h, self) THEN Returned(self)
    ELSE IF IsLeaf(h, self) THEN Raised("KeyError")
    ELSE subzChildren(h, self, lbl, 1, depth)

\* Mutant: no try/except around the recursive call, so the KeyError of a
\* child ends the search.
subzChildren_NoCatch(h, self, lbl, i, depth) ==
    IF i > Len(h[self].children) THEN Raised("KeyError")
    ELSE subz(h, h[self].children[i], lbl, depth - 1)

\* The for loop of CompositeZ.subz from child i on: a KeyError of a child is
\* swallowed and the next child tried; after the last child KeyError.
subzChildren(h, self, lbl, i, depth) ==
    IF i > Len(h[self].children) THEN Raised("KeyError")
    ELSE LET r == subz(h, h[self].children[i], lbl, depth - 1)
         IN  IF r.err = "KeyError"
             THEN subzChildren(h, self, lbl, i + 1, depth)
             ELSE r

\* ------------------------------------------------------------------ actions

Init ==
    /\ heap = <<>>
    /\ last = Called("init", 0, 0, NoSub, NoArg, Returned(0))

\* R(subs, v), L(subs, v), C(subs, v)
NewLeaf(type, subs, v) ==
    /\ Building
    /\ Len(heap) < MaxNodes
    /\ heap' = Append(heap, LumpedElement(type, subs, v))
    /\ last' = Called("new", 0, 0, subs, [n |-> 0], Returned(Len(heap) + 1))

\* Tuples of at most k existing objects: the *children of a constructor.
RECURSIVE Tuples(_, _)
Tuples(S, k) ==
    IF k = 0 THEN {<<>>}
    ELSE Tuples(S, k - 1) \cup {Append(t, x) : t \in Tuples(S, k - 1), x \in S}

\* Mutant: the constructor without its check of the number of children.
NewComposite_Unchecked(type, children, subs) ==
    /\ Building
    /\ Len(heap) < MaxNodes
    /\ heap' = Append(heap, CompositeZ(type, children, subs))
    /\ last' = Called("new", 0, 0, subs, [n |-> Len(children)],
                      Returned(Len(heap) + 1))

\* CompositeZ.__init__ reached through SeriesZ(*children, subscript=subs) or
\* ParallelZ(*children, subscript=subs): fewer than two children raise
\* ValueError before the object is initialised.
NewComposite(type, children, subs) ==
    /\ Building
    /\ IF Len(children) < 2
       THEN /\ heap' = heap
            /\ last' = Called("new", 0, 0, subs, [n |-> Len(children)],
                              Raised("ValueError"))
       ELSE /\ Len(heap) < MaxNodes
            /\ heap' = Append(heap, CompositeZ(type, children, subs))
            /\ last' = Called("new", 0, 0, subs, [n |-> Len(children)],
                              Returned(Len(heap) + 1))

\* Mutant: merge that never flattens.
merge_Append(h, self, other) == Append(h[self].children, other)

\* Mutant: merge that flattens every composite, of whatever kind.
merge_AnyComposite(h, self, other) ==
    IF IsComposite(h, other)
    THEN h[self].children \o h[other].children
    ELSE Append(h[self].children, other)

\* CompositeZ.merge: the children list of self after self.merge(other).
merge(h, self, other) ==
    IF h[other].type = h[self].type
    THEN h[self].children \o h[other].children
    ELSE Append(h[self].children, other)

\* self.merge(other), called directly on a composite.
Merge(self, other) ==
    /\ Building
    /\ IsComposite(heap, self)
    /\ Len(merge(heap, self, other)) <= MaxChildren
    /\ heap' = [heap EXCEPT ![self].children = merge(heap, self, other)]
    /\ last' = Called("merge", self, other, NoSub, NoArg, Returned(0))

\* Mutant: the operators never merge in place: a new composite is
\* constructed from the merged children and self is left as it was.
Combine_AlwaysNew(op, kind, self, other) ==
    /\ Building
    /\ Len(heap) < MaxNodes
    /\ heap' = Append(heap,
                      CompositeZ(kind,
                                 IF heap[self].type = kind
                                 THEN merge(heap, self, other)
                                 ELSE <<self, other>>,
                                 heap[self].subscript))
    /\ last' = Called(op, self, other, NoSub, NoArg, Returned(Len(heap) + 1))

\* The body shared by Z.__add__ (kind SeriesZ) and Z.__floordiv__ (kind
\* ParallelZ): merge in place when self is of that kind, else construct a
\* new composite of that kind from (self, other).
Combine(op, kind, self, other) ==
    /\ Building
    /\ IF heap[self].type = kind
       THEN /\ Len(merge(heap, self, other)) <= MaxChildren
            /\ heap' = [heap EXCEPT ![self].children = merge(heap, self, other)]
            /\ last' = Called(op, self, other, NoSub, NoArg, Returned(self))
       ELSE /\ Len(heap) < MaxNodes
            /\ heap' = Append(heap, CompositeZ(kind, <<self, other>>, NoSub))
            /\ last' = Called(op, self, other, NoSub, NoArg,
                              Returned(Len(heap) + 1))

\* self + other
Add(self, other) == Combine("add", "SeriesZ", self, other)

\* self // other
FloorDiv(self, other) == Combine("floordiv", "ParallelZ", self, other)

\* Mutant: self[subs] returns a relabelled copy and leaves self as it was.
GetItem_Copy(self, subs) ==
    /\ Building
    /\ Len(heap) < MaxNodes
    /\ heap' = Append(heap, [heap[self] EXCEPT !.subscript = subs])
    /\ last' = Called("getitem", self, 0, subs,
                      [old |-> heap[self].subscript], Returned(Len(heap) + 1))

\* self[subs]: assigns the subscript in place and returns self.  The record
\* of the call keeps the subscript that was replaced.
GetItem(self, subs) ==
    /\ Building
    /\ heap' = [heap EXCEPT ![self].subscript = subs]
    /\ last' = Called("getitem", self, 0, subs,
                      [old |-> heap[self].subscript], Returned(self))

\* self.subz(lbl)
Subz(self, lbl) ==
    /\ Building
    /\ heap' = heap
    /\ last' = Called("subz", self, 0, NoSub, [label |-> lbl],
                      subz(heap, self, lbl, RecursionLimit))

\* The calls that create, connect and relabel objects, with leaves of the
\* types T, subscripts S and bound values V.
Build(T, S, V) ==
    \/ \E t \in T, s \in S, v \in V : NewLeaf(t, s, v)
    \/ \E t \in CompositeTypes, c \in Tuples(Nodes, MaxArgs), s \in S :
          NewComposite(t, c, s)
    \/ \E a \in Nodes, b \in Nodes : Merge(a, b)
    \/ \E a \in Nodes, b \in Nodes : Add(a, b)
    \/ \E a \in Nodes, b \in Nodes : FloorDiv(a, b)
    \/ \E a \in Nodes, s \in S : GetItem(a, s)

\* Building and relabelling structures of resistors and capacitors.
Next == Build({"R", "C"}, Subscripts, BoundValues)

Spec == Init /\ [][Next]_vars

\* Building labelled structures of unbound resistors and capacitors, then subz.
NextSubz ==
    \/ Build({"R", "C"}, Subscripts, {None})
    \/ \E a \in Nodes, l \in Labels : Subz(a, l)

SpecSubz == Init /\ [][NextSubz]_vars

\* Leaves connected by the two operators only, and relabelled.
NextCombine ==
    \/ \E t \in LeafTypes, v \in BoundValues : NewLeaf(t, NoSub, v)
    \/ \E a \in Nodes, b \in Nodes : Add(a, b)
    \/ \E a \in Nodes, b \in Nodes : FloorDiv(a, b)
    \/ \E a \in Nodes, s \in Subscripts : GetItem(a, s)

SpecCombine == Init /\ [][NextCombine]_vars

\* ------------------------------------------------------------------ numbers

\* The arithmetic of __call__ is exact here: a real is a fraction <<n, d>>
\* in lowest terms with d > 0, a complex number a record of two reals.
RECURSIVE Gcd(_, _)
Gcd(a, b) == IF b = 0 THEN a ELSE Gcd(b, a % b)

Abs(a) == IF a < 0 THEN 0 - a ELSE a

Frac(n, d) ==
    LET g == Gcd(Abs(n), Abs(d))
        s == IF d < 0 THEN 0 - 1 ELSE 1
    IN  <<(s * n) \div g, (s * d) \div g>>

RAdd(x, y) == Frac(x[1] * y[2] + y[1] * x[2], x[2] * y[2])

RMul(x, y) == Frac(x[1] * y[1], x[2] * y[2])

RDiv(x, y) == Frac(x[1] * y[2], x[2] * y[1])

RNeg(x) == <<0 - x[1], x[2]>>

Real(n) == <<n, 1>>

Complex(re, im) == [re |-> re, im |-> im]

CZero == Complex(Real(0), Real(0))

CAdd(x, y) == Complex(RAdd(x.re, y.re), RAdd(x.im, y.im))

\* 1 / x for x # 0: the conjugate over the squared magnitude.
CInv(x) ==
    LET m == RAdd(RMul(x.re, x.re), RMul(x.im, x.im))
    IN  Complex(RDiv(x.re, m), RNeg(RDiv(x.im, m)))

\* ------------------------------------------------------------------ __call__

\* The frequencies of a call, given as w = 2 * pi * ff.
Frequencies == {0, 1}

\* The **lumpedparam of a call: a function from its keys to their values.
OverrideKeys == {"R", "C", "X"}

OverrideValues == {None, <<2>>}

Params ==
    {<<>>} \cup UNION {[{k} -> OverrideValues] : k \in OverrideKeys}

\* Mutant: the bound value wins over the keyword argument.
lookup_value_BoundFirst(h, self, lumpedparam) ==
    LET name  == prefix(h, self) \o Str(h[self].subscript)
        value == IF h[self].value # None THEN h[self].value
                 ELSE IF name \in DOMAIN lumpedparam THEN lumpedparam[name]
                 ELSE None
    IN  IF value = None THEN Raised("ValueError") ELSE Value(value[1])

\* LumpedElement._lookup_value
lookup_value(h, self, lumpedparam) ==
    LET name  == prefix(h, self) \o Str(h[self].subscript)
        value == IF name \in DOMAIN lumpedparam THEN lumpedparam[name]
                 ELSE h[self].value
    IN  IF value = None THEN Raised("ValueError") ELSE Value(value[1])

\* R.__call__, L.__call__ and C.__call__ once the value v is known.
Impedance(type, v, w) ==
    IF type = "R" THEN Value(Complex(Real(v), Real(0)))
    ELSE IF type = "L" THEN Value(Complex(Real(0), Real(w * v)))
    ELSE IF w * v = 0 THEN Raised("ZeroDivisionError")
    ELSE Value(Complex(Real(0), Frac(0 - 1, w * v)))

\* 1 / x as Python computes it for a complex x.
Reciprocal(x) ==
    IF x = CZero THEN Raised("ZeroDivisionError") ELSE Value(CInv(x))

\* z(ff, **lumpedparam) for every kind of z.  depth counts the Python frames
\* left, as in subz.  sum() consumes its generator child by child, so the
\* first exception of a child, or of the 1 / of a child, ends the call.
RECURSIVE call(_, _, _, _, _), SeriesSum(_, _, _, _, _, _, _),
          ParallelSum(_, _, _, _, _, _, _)
call(h, self, w, lumpedparam, depth) ==
    IF depth = 0 THEN Raised("RecursionError")
    ELSE IF IsLeaf(h, self)
    THEN LET v == lookup_value(h, self, lumpedparam)
         IN  IF v.err # "none" THEN v ELSE Impedance(h[self].type, v.val, w)
    ELSE IF h[self].type = "SeriesZ"
    THEN SeriesSum(h, self, w, lumpedparam, 1, CZero, depth)
    ELSE LET s == ParallelSum(h, self, w, lumpedparam, 1, CZero, depth)
         IN  IF s.err # "none" THEN s ELSE Reciprocal(s.val)

\* Mutant: the series sum stops after its first child.
SeriesSum_FirstOnly(h, self, w, lumpedparam, i, acc, depth) ==
    IF i > 1 THEN Value(acc)
    ELSE LET r == call(h, h[self].children[i], w, lumpedparam, depth - 1)
         IN  IF r.err # "none" THEN r
             ELSE Value(CAdd(acc, r.val))

\* SeriesZ.__call__: acc plus the values of the children from i on.
SeriesSum(h, self, w, lumpedparam, i, acc, depth) ==
    IF i > Len(h[self].children) THEN Value(acc)
    ELSE LET r == call(h, h[self].children[i], w, lumpedparam, depth - 1)
         IN  IF r.err # "none" THEN r
             ELSE SeriesSum(h, self, w, lumpedparam, i + 1,
                            CAdd(acc, r.val), depth)

\* The sum inside ParallelZ.__call__: acc plus the reciprocals of the values
\* of the children from i on.
ParallelSum(h, self, w, lumpedparam, i, acc, depth) ==
    IF i > Len(h[self].children) THEN Value(acc)
    ELSE LET r == call(h, h[self].children[i], w, lumpedparam, depth - 1)
             y == Reciprocal(r.val)
         IN  IF r.err # "none" THEN r
             ELSE IF y.err # "none" THEN y
             ELSE ParallelSum(h, self, w, lumpedparam, i + 1,
                              CAdd(acc, y.val), depth)

\* self(ff, **lumpedparam)
Evaluate(self, w, lumpedparam) ==
    /\ Building
    /\ heap' = heap
    /\ last' = Called("call", self, 0, NoSub, [w |-> w, params |-> lumpedparam],
                      call(heap, self, w, lumpedparam, RecursionLimit))

\* Unlabelled leaves connected by the two operators, then evaluated.
NextCall ==
    \/ \E t \in LeafTypes, v \in BoundValues : NewLeaf(t, NoSub, v)
    \/ \E a \in Nodes, b \in Nodes : Add(a, b)
    \/ \E a \in Nodes, b \in Nodes : FloorDiv(a, b)
    \/ \E a \in Nodes, w \in Frequencies, p \in Params : Evaluate(a, w, p)

SpecCall == Init /\ [][NextCall]_vars

\* ------------------------------------------------------------------ breakfreq

\* The labels argument is a string, here the sequence of its characters.
Chars == {"R", "C", "Z", " "}

\* labels.split(): the maximal runs of non-blank characters, in order.
RECURSIVE SplitFrom(_, _, _, _)
SplitFrom(s, i, word, words) ==
    IF i > Len(s)
    THEN IF word = "" THEN words ELSE Append(words, word)
    ELSE IF s[i] = " "
    THEN SplitFrom(s, i + 1, "", IF word = "" THEN words ELSE Append(words, word))
    ELSE SplitFrom(s, i + 1, word \o s[i], words)

Split(s) == SplitFrom(s, 1, "", <<>>)

\* [self.subz(label) for label in labels.split()] from label i on: the
\* objects found, or the first exception of subz.
RECURSIVE Elements(_, _, _, _, _)
Elements(h, self, words, i, found) ==
    IF i > Len(words) THEN [err |-> "none", nodes |-> found]
    ELSE LET r == subz(h, self, words[i], RecursionLimit)
         IN  IF r.err # "none" THEN [err |-> r.err, nodes |-> <<>>]
             ELSE Elements(h, self, words, i + 1, Append(found, r.node))

\* elements_dict: class name -> the last element of that class.
ElementsDict(h, elements) ==
    [t \in {h[elements[i]].type : i \in 1..Len(elements)} |->
        LET at == {i \in 1..Len(elements) : h[elements[i]].type = t}
        IN  elements[CHOOSE i \in at : \A j \in at : j <= i]]

\* A break frequency f, kept exact: 2 * pi * f is x, or the square root of
\* x when root is set.
Freq(x, root) == [x |-> x, root |-> root]

\* The three formulas.  Arithmetic on None raises TypeError, a zero divisor
\* ZeroDivisionError, and math.sqrt of a negative product ValueError.
Formula(h, dict) ==
    LET types == DOMAIN dict
        val(t) == h[dict[t]].value
    IN  IF \E t \in types : val(t) = None THEN Raised("TypeError")
        ELSE IF types = {"R", "C"}
        THEN IF val("R")[1] * val("C")[1] = 0 THEN Raised("ZeroDivisionError")
             ELSE Value(Freq(Frac(1, val("R")[1] * val("C")[1]), FALSE))
        ELSE IF types = {"R", "L"}
        THEN IF val("L")[1] = 0 THEN Raised("ZeroDivisionError")
             ELSE Value(Freq(Frac(val("R")[1], val("L")[1]), FALSE))
        ELSE IF val("L")[1] * val("C")[1] < 0 THEN Raised("ValueError")
        ELSE IF val("L")[1] * val("C")[1] = 0 THEN Raised("ZeroDivisionError")
        ELSE Value(Freq(Frac(1, val("L")[1] * val("C")[1]), TRUE))

\* Mutant: the number of labels is checked before any label is resolved.
breakfreq_CountFirst(h, self, labels) ==
    LET words == Split(labels)
        e     == Elements(h, self, words, 1, <<>>)
        dict  == ElementsDict(h, e.nodes)
    IN  IF Len(words) # 2 THEN Raised("ValueError")
        ELSE IF e.err # "none" THEN Raised(e.err)
        ELSE IF Cardinality(DOMAIN dict) # 2 THEN Raised("ValueError")
        ELSE IF ~ (DOMAIN dict \subseteq {"R", "L", "C"})
        THEN Raised("ValueError")
        ELSE Formula(h, dict)

\* Z.breakfreq
breakfreq(h, self, labels) ==
    LET e    == Elements(h, self, Split(labels), 1, <<>>)
        dict == ElementsDict(h, e.nodes)
    IN  IF e.err # "none" THEN Raised(e.err)
        ELSE IF Len(e.nodes) # 2 \/ Cardinality(DOMAIN dict) # 2
        THEN Raised("ValueError")
        ELSE IF ~ (DOMAIN dict \subseteq {"R", "L", "C"})
        THEN Raised("ValueError")
        ELSE Formula(h, dict)

\* self.breakfreq(labels)
Breakfreq(self, labels) ==
    /\ Building
    /\ heap' = heap
    /\ last' = Called("breakfreq", self, 0, NoSub, [labels |-> labels],
                      breakfreq(heap, self, labels))

\* Bound values of the leaves breakfreq is tried on.
BreakfreqValues == {<<2>>}

\* The strings of at most k characters.
RECURSIVE Strings(_)
Strings(k) ==
    IF k = 0 THEN {<<>>}
    ELSE Strings(k - 1) \cup {Append(s, c) : s \in Strings(k - 1), c \in Chars}

\* The labels arguments tried: every short string, and three labels.
LabelStrings ==
    Strings(MaxLabelChars)
        \cup {<<a, " ", b, " ", c>> : a \in {"R"}, b \in {"R", "C"}, c \in {"C", "Z"}}

\* Unlabelled bound resistors and capacitors connected by the two operators,
\* then breakfreq.
NextBreakfreq ==
    \/ \E t \in {"R", "C"}, v \in BreakfreqValues : NewLeaf(t, NoSub, v)
    \/ \E a \in Nodes, b \in Nodes : Add(a, b)
    \/ \E a \in Nodes, b \in Nodes : FloorDiv(a, b)
    \/ \E a \in Nodes, s \in LabelStrings : Breakfreq(a, s)

SpecBreakfreq == Init /\ [][NextBreakfreq]_vars

\* Bound values of the leaves a break frequency is computed from.
PairValues == {None, <<1>>, <<2>>}

\* The labels arguments that name two labels.
PairStrings == {<<a, " ", b>> : a, b \in LeafTypes \cup {"Z"}}

\* Unlabelled leaves of every kind connected in series, then breakfreq with
\* two labels.
NextPairs ==
    \/ \E t \in LeafTypes, v \in PairValues : NewLeaf(t, NoSub, v)
    \/ \E a \in Nodes, b \in Nodes : Add(a, b)
    \/ \E a \in Nodes, s \in PairStrings : Breakfreq(a, s)

SpecPairs == Init /\ [][NextPairs]_vars

\* ------------------------------------------------------------------ C1

\* A composite none of whose direct children is a composite of its own kind.
Flat(h, n) == \A i \in 1..Len(h[n].children) : h[h[n].children[i]].type # h[n].type

\* The kind of composite an operator builds.
KindOf(op) == IF op = "add" THEN "SeriesZ" ELSE "ParallelZ"

Combines == {"add", "floordiv"}

\* C1 as stated: whatever the grouping of the applications of + and //, no
\* composite they build has a composite of its own kind as a direct child.
C1_AnyGrouping == \A n \in Nodes : Flat(heap, n)

\* C1 (amended): flattening happens on the left operand only.  When self is
\* already a composite of the operator's kind the result is self, its
\* children followed by other's children (other of that kind) or by other,
\* and it has no same-kind direct child when neither operand had; when self
\* is not of that kind the result is a new composite with children exactly
\* <<self, other>>, which nests other when other is of that kind.
C1_LeftFlattening ==
    [][last'.op \in Combines =>
        LET k == KindOf(last'.op)
            a == last'.self
            b == last'.other
            r == last'.ret.node
        IN  /\ heap'[r].type = k
            /\ heap[a].type = k =>
                 /\ r = a
                 /\ heap'[r].children =
                      heap[a].children \o
                        (IF heap[b].type = k THEN heap[b].children ELSE <<b>>)
                 /\ Flat(heap, a) /\ Flat(heap, b) => Flat(heap', r)
            /\ heap[a].type # k =>
                 /\ r = Len(heap) + 1
                 /\ heap'[r].children = <<a, b>>
                 /\ Flat(heap', r) <=> heap[b].type # k]_vars

\* (a op b) op c: the chain was merged in place into one flat composite of
\* three leaves.
C1_Witness ==
    /\ last.op \in Combines
    /\ last.ret.node = last.self
    /\ Len(heap[last.self].children) = 3
    /\ Flat(heap, last.self)
    /\ \A i \in 1..3 : IsLeaf(heap, heap[last.self].children[i])

\* ------------------------------------------------------------------ C2

\* C2 as stated: after composite.merge(other) the children of composite are
\* its previous children followed by other's children (other of the same
\* kind) or by other as one element, and other's own children list and
\* subscript are unchanged.
C2_MergeOtherUnchanged ==
    [][last'.op = "merge" =>
        LET a == last'.self
            b == last'.other
        IN  /\ heap'[a].children =
                 IF heap[b].type = heap[a].type
                 THEN heap[a].children \o heap[b].children
                 ELSE heap[a].children \o <<b>>
            /\ heap'[b].children = heap[b].children
            /\ heap'[b].subscript = heap[b].subscript]_vars

\* C2 (amended): as stated, except that other's own children list is
\* unchanged only when other is another object than composite; merging a
\* composite with itself doubles its children list.  Nothing else changes.
C2_Merge ==
    [][last'.op = "merge" =>
        LET a == last'.self
            b == last'.other
        IN  /\ heap'[a].children =
                 IF heap[b].type = heap[a].type
                 THEN heap[a].children \o heap[b].children
                 ELSE heap[a].children \o <<b>>
            /\ b # a => heap'[b].children = heap[b].children
            /\ b = a => heap'[b].children = heap[b].children \o heap[b].children
            /\ heap'[b].subscript = heap[b].subscript
            /\ Len(heap') = Len(heap)
            /\ \A n \in Nodes \ {a} : heap'[n] = heap[n]]_vars

\* Two distinct composites of the same kind were merged: all four children
\* are direct children, and other keeps its two.
C2_Witness ==
    /\ last.op = "merge"
    /\ last.other # last.self
    /\ heap[last.other].type = heap[last.self].type
    /\ Len(heap[last.self].children) = 4
    /\ Len(heap[last.other].children) = 2

\* ------------------------------------------------------------------ C3

DocLabel(type, subs) ==
    (IF type \in {"SeriesZ", "ParallelZ"} THEN "Z" ELSE type)
        \o (IF subs = [int |-> 1] THEN "1" ELSE subs.str)

C6_GetItemFrame ==
    [][last'.op = "getitem" =>
        LET n == last'.self
        IN  /\ last'.ret = Returned(n)
            /\ Len(heap') = Len(heap)
            /\ heap'[n] = [heap[n] EXCEPT !.subscript = last'.subs]
            /\ \A m \in Nodes \ {n} : heap'[m] = heap[m]]_vars

\* A composite with children was relabelled next to a leaf with a bound value.
C6_Witness ==
    /\ last.op = "getitem"
    /\ last.arg.old # last.subs
    /\ Len(heap[last.self].children) >= 2
    /\ \E m \in Nodes : heap[m].value # None

\* ------------------------------------------------------------------ C4

Children(h, n) == {h[n].children[i] : i \in 1..Len(h[n].children)}

RECURSIVE Below(_, _, _)
Below(h, S, k) ==
    IF k = 0 THEN S
    ELSE Below(h, S \cup UNION {Children(h, m) : m \in S}, k - 1)

\* n and everything under it.
Subtree(h, n) == Below(h, {n}, Len(h))

\* The structure under n is a tree or a DAG: nothing in it is under itself.
Acyclic(h, n) ==
    \A m \in Subtree(h, n) : m \notin Below(h, Children(h, m), Len(h))

\* The objects of an acyclic structure in depth-first pre-order, children
\* left to right.
RECURSIVE PreOrder(_, _), PreOrderFrom(_, _, _)
PreOrder(h, n) == <<n>> \o PreOrderFrom(h, n, 1)

PreOrderFrom(h, n, i) ==
    IF i > Len(h[n].children) THEN <<>>
    ELSE PreOrder(h, h[n].children[i]) \o PreOrderFrom(h, n, i + 1)

\* What the documentation promises of subz on an acyclic structure: the
\* first object in pre-order whose label is lbl, or KeyError.
FirstLabelled(h, n, lbl) ==
    LET order == PreOrder(h, n)
        hits  == {i \in 1..Len(order) :
                    DocLabel(h[order[i]].type, h[order[i]].subscript) = lbl}
    IN  IF hits = {} THEN Raised("KeyError")
        ELSE Returned(order[CHOOSE i \in hits : \A j \in hits : i <= j])

Present(h, n, lbl) ==
    \E m \in Subtree(h, n) : DocLabel(h[m].type, h[m].subscript) = lbl

\* The type of the object the label lbl, present under n, resolves to.
TypeOf(h, n, lbl) == h[FirstLabelled(h, n, lbl).node].type

\* The domain errors of C10 for the labels words on node n, all of them
\* present: not two labels, two objects of one kind, or a composite.
DomainError(h, n, words) ==
    \/ Len(words) # 2
    \/ TypeOf(h, n, words[1]) = TypeOf(h, n, words[2])
    \/ \E i \in 1..2 : TypeOf(h, n, words[i]) \in CompositeTypes

\* C10 as stated: the number of labels is checked first, so every labels
\* string that does not name exactly two labels raises the domain error
\* (ValueError), as do two present labels of one kind or with a composite;
\* KeyError is raised only for an absent label.
C10_CountCheckedFirst ==
    last.op = "breakfreq" /\ Acyclic(heap, last.self) =>
        LET words == Split(last.arg.labels)
            AllPresent == \A i \in 1..Len(words) :
                             Present(heap, last.self, words[i])
        IN  /\ Len(words) # 2 => last.ret.err = "ValueError"
            /\ AllPresent /\ DomainError(heap, last.self, words)
                  => last.ret.err = "ValueError"
            /\ last.ret.err = "KeyError" => ~AllPresent

\* C10 amended: every label is resolved first, so KeyError is raised exactly
\* when some label is absent, whatever the number of labels; when all are
\* present, ValueError is raised for a number of labels other than two, for
\* two objects of one kind and for a composite.
C10_ResolvedFirst ==
    last.op = "breakfreq" /\ Acyclic(heap, last.self) =>
        LET words == Split(last.arg.labels)
            AllPresent == \A i \in 1..Len(words) :
                             Present(heap, last.self, words[i])
        IN  /\ last.ret.err = "KeyError" <=> ~AllPresent
            /\ AllPresent /\ DomainError(heap, last.self, words)
                  => last.ret.err = "ValueError"

\* breakfreq raised ValueError for three labels that are all present, the
\* first two a resistor and a capacitor.
C10_Witness ==
    /\ last.op = "breakfreq"
    /\ Acyclic(heap, last.self)
    /\ last.ret.err = "ValueError"
    /\ LET words == Split(last.arg.labels)
       IN  /\ Len(words) = 3
           /\ \A i \in 1..3 : Present(heap, last.self, words[i])
           /\ TypeOf(heap, last.self, words[1]) = "R"
           /\ TypeOf(heap, last.self, words[2]) = "C"

\* ------------------------------------------------------------------ C11

\* The table of break frequencies: for the kinds and values of two leaves,
\* 2 * pi * f is 1 / (R * C), R / L, or the square root of 1 / (L * C).
Table(t1, v1, t2, v2) ==
    LET v(t) == IF t = t1 THEN v1 ELSE v2
    IN  IF {t1, t2} = {"R", "C"}
        THEN [x |-> Frac(1, v("R") * v("C")), root |-> FALSE]
        ELSE IF {t1, t2} = {"R", "L"}
        THEN [x |-> Frac(v("R"), v("L")), root |-> FALSE]
        ELSE [x |-> Frac(1, v("L") * v("C")), root |-> TRUE]

\* C11: breakfreq raises nothing but the domain error (ValueError) and the
\* not-found error (KeyError), and for two labels that resolve to leaves of
\* two different kinds it returns the frequency of the table for the two
\* kinds, the same for either order of the labels.
C11_PairFormula ==
    last.op = "breakfreq" /\ Acyclic(heap, last.self) =>
        LET words == Split(last.arg.labels)
            n(i)  == FirstLabelled(heap, last.self, words[i]).node
        IN  /\ last.ret.err \in {"none", "ValueError", "KeyError"}
            /\ /\ Len(words) = 2
               /\ \A i \in 1..2 : Present(heap, last.self, words[i])
               /\ \A i \in 1..2 : heap[n(i)].type \in {"R", "L", "C"}
               /\ heap[n(1)].type # heap[n(2)].type
               => /\ last.ret = Value(Table(heap[n(1)].type, heap[n(1)].value[1],
                                            heap[n(2)].type, heap[n(2)].value[1]))
                  /\ last.ret = breakfreq(heap, last.self,
                                          <<words[2], " ", words[1]>>)

\* ------------------------------------------------------------------ C12

\* x + y for two outcomes of an evaluation, x evaluated first.
Plus(x, y) ==
    IF x.err # "none" THEN x
    ELSE IF y.err # "none" THEN y
    ELSE Value([re |-> RAdd(x.val.re, y.val.re), im |-> RAdd(x.val.im, y.val.im)])

\* The sum of the values of the objects listed in c from i on, one term for
\* every entry of the list.
RECURSIVE SumOfChildren(_, _, _, _, _)
SumOfChildren(h, c, i, w, params) ==
    IF i > Len(c) THEN Value([re |-> <<0, 1>>, im |-> <<0, 1>>])
    ELSE Plus(call(h, c[i], w, params, RecursionLimit),
              SumOfChildren(h, c, i + 1, w, params))

\* C12: the value of a Series object is the sum of the values of the entries
\* of its children list, and the object returned by a + b evaluates to what
\* a evaluated to before the call plus what b evaluated to before the call,
\* whether a was merged into or a new object was constructed.
C12_SeriesSum ==
    /\ [](last.op = "call" /\ heap[last.self].type = "SeriesZ" =>
            last.ret = SumOfChildren(heap, heap[last.self].children, 1,
                                     last.arg.w, last.arg.params))
    /\ [][last'.op = "add" =>
            \A w \in Frequencies, p \in Params :
                call(heap', last'.ret.node, w, p, RecursionLimit)
                    = Plus(call(heap, last'.self, w, p, RecursionLimit),
                           call(heap, last'.other, w, p, RecursionLimit))]_vars

\* ------------------------------------------------------------------ C13

\* C13: whatever objects are constructed, combined, merged and relabelled,
\* no object is ever under itself, and subz ends by returning an object or
\* raising KeyError.
C13_StaysAcyclic ==
    /\ \A n \in Nodes : Acyclic(heap, n)
    /\ last.op = "subz" => last.ret.err \in {"none", "KeyError"}

\* ------------------------------------------------------------------ C14

\* What an a op b step does to a and to the other objects, b apart: a of the
\* operator's kind is returned itself, with its subscript kept and its
\* children list extended, and no object is created; any other a is left as
\* it was and a new composite of that kind, without subscript, with children
\* <<a, b>> is returned.  No other object changes.
CombineEffect(h, g, k, a, b, r) ==
    /\ r = a <=> h[a].type = k
    /\ h[a].type = k =>
         /\ Len(g) = Len(h)
         /\ g[a].type = k
         /\ g[a].subscript = h[a].subscript
         /\ Len(g[a].children) > Len(h[a].children)
         /\ SubSeq(g[a].children, 1, Len(h[a].children)) = h[a].children
         /\ \A n \in DOMAIN h : n # a => g[n] = h[n]
    /\ h[a].type # k =>
         /\ r = Len(h) + 1
         /\ Len(g) = Len(h) + 1
         /\ g[r] = [type |-> k, subscript |-> [str |-> ""], value |-> <<>>,
                    children |-> <<a, b>>]
         /\ \A n \in DOMAIN h : g[n] = h[n]

\* C14 as stated: the effect above, and in both cases b, its children list
\* and its subscript are unchanged.
C14_CombineOtherUnchanged ==
    [][last'.op \in Combines =>
        LET a == last'.self
            b == last'.other
        IN  /\ CombineEffect(heap, heap', KindOf(last'.op), a, b, last'.ret.node)
            /\ heap'[b].children = heap[b].children
            /\ heap'[b].subscript = heap[b].subscript]_vars

\* C14 amended: the effect above, and b, its children list and its subscript
\* are unchanged unless b is a itself and of the operator's kind, when its
\* children list is doubled.
C14_CombineFrame ==
    [][last'.op \in Combines =>
        LET k == KindOf(last'.op)
            a == last'.self
            b == last'.other
        IN  /\ CombineEffect(heap, heap', k, a, b, last'.ret.node)
            /\ heap'[b].subscript = heap[b].subscript
            /\ heap'[b].children =
                 IF b = a /\ heap[a].type = k
                 THEN heap[b].children \o heap[b].children
                 ELSE heap[b].children]_vars

\* A subscripted composite that is the child of another composite was
\* combined with a third object and returned itself, one child longer.
C14_Witness ==
    /\ last.op \in Combines
    /\ last.ret.node = last.self
    /\ last.other # last.self
    /\ heap[last.self].subscript # NoSub
    /\ Len(heap[last.self].children) = 3
    /\ \E p \in Nodes : p # last.self /\ last.self \in Children(heap, p)

\* ------------------------------------------------------------------ C7

\* The value the documentation gives leaf n in a call with the overrides
\* params: the override keyed by its label, else its bound value.
Resolved(h, n, params) ==
    LET name == DocLabel(h[n].type, h[n].subscript)
    IN  IF name \in DOMAIN params THEN params[name] ELSE h[n].value

\* The objects with every overridden leaf bound to its override instead.
Substituted(h, params) ==
    [n \in DOMAIN h |->
        IF IsLeaf(h, n) THEN [h[n] EXCEPT !.value = Resolved(h, n, params)]
        ELSE h[n]]

\* C7: in a call with overrides a leaf whose label is a key of the overrides
\* takes the override, bound or not, and every other leaf its bound value:
\* the call gives what a call without overrides gives on the structure whose
\* overridden leaves are bound to their overrides, and a resistor alone gives
\* its resolved value.  The call changes no object, bound values included.
C7_ValueResolution ==
    /\ [](last.op = "call" =>
            /\ last.ret = call(Substituted(heap, last.arg.params), last.self,
                               last.arg.w, <<>>, RecursionLimit)
            /\ heap[last.self].type = "R" =>
                 LET v == Resolved(heap, last.self, last.arg.params)
                 IN  last.ret = IF v = None THEN Raised("ValueError")
                                ELSE Value([re |-> <<v[1], 1>>, im |-> <<0, 1>>]))
    /\ [][last'.op = "call" => heap' = heap]_vars

\* A composite was evaluated to a value with an override for one bound leaf
\* under it while another bound leaf under it had none.
C7_Witness ==
    /\ last.op = "call"
    /\ IsComposite(heap, last.self)
    /\ last.ret.err = "none"
    /\ \E m \in Subtree(heap, last.self) :
          /\ IsLeaf(heap, m)
          /\ heap[m].value = <<1>>
          /\ label(heap, m) \in DOMAIN last.arg.params
          /\ last.arg.params[label(heap, m)] = <<2>>
    /\ \E m \in Subtree(heap, last.self) :
          /\ IsLeaf(heap, m)
          /\ heap[m].value = <<1>>
          /\ label(heap, m) \notin DOMAIN last.arg.params

\* ------------------------------------------------------------------ C8

\* Leaf n resolves to no value: it has no bound value and no override keyed
\* by its label, or the override keyed by its label is None.
Unresolved(h, n, params) == IsLeaf(h, n) /\ Resolved(h, n, params) = None

HasLeaf(h, n, type) == \E m \in Subtree(h, n) : h[m].type = type

\* C8 as stated: evaluate raises ValueError if and only if some leaf under
\* the node resolves to no value, and otherwise returns a value.
C8_AllOrNothing ==
    last.op = "call" /\ Acyclic(heap, last.self) =>
        LET U == \E m \in Subtree(heap, last.self) :
                    Unresolved(heap, m, last.arg.params)
        IN  /\ last.ret.err = "ValueError" <=> U
            /\ ~U => last.ret.err = "none"

\* C8 amended: evaluate raises ValueError only if some leaf under the node
\* resolves to no value; if one does, at whatever depth and position, it
\* returns no value; it raises nothing but ValueError and ZeroDivisionError;
\* and with positive values ZeroDivisionError needs frequency 0 or both an
\* inductor and a capacitor under the node.
C8_ValueErrorOnlyIfUnresolved ==
    last.op = "call" /\ Acyclic(heap, last.self) =>
        LET U == \E m \in Subtree(heap, last.self) :
                    Unresolved(heap, m, last.arg.params)
        IN  /\ last.ret.err \in {"none", "ValueError", "ZeroDivisionError"}
            /\ last.ret.err = "ValueError" => U
            /\ U => last.ret.err # "none"
            /\ last.ret.err = "none" => DOMAIN last.ret.val = {"re", "im"}
            /\ last.ret.err = "ZeroDivisionError" =>
                  \/ last.arg.w = 0
                  \/ /\ HasLeaf(heap, last.self, "L")
                     /\ HasLeaf(heap, last.self, "C")

\* The evaluation of a composite raised ValueError for an unresolved leaf
\* that is not under its first child, whose evaluation succeeded.
C8_Witness ==
    /\ last.op = "call"
    /\ Acyclic(heap, last.self)
    /\ IsComposite(heap, last.self)
    /\ last.ret.err = "ValueError"
    /\ ~ \E m \in Subtree(heap, heap[last.self].children[1]) :
            Unresolved(heap, m, last.arg.params)

\* ------------------------------------------------------------------ C9

\* C9: evaluate fails whenever a key of the overrides is the label of no
\* lumped element under the evaluated node.
C9_UnmatchedKeyFails ==
    last.op = "call" /\ Acyclic(heap, last.self) =>
        ((\E k \in DOMAIN last.arg.params :
            \A m \in Subtree(heap, last.self) :
                IsLeaf(heap, m) => DocLabel(heap[m].type, heap[m].subscript) # k)
         => last.ret.err # "none")

====
